---- MODULE Spec2Model ----
(***************************************************************************)
(* The question / answer / feedback service of fundamentor: the HTTP       *)
(* endpoints of main.py over the Interaction table, and the generator of   *)
(* generate_qnf.py they call.                                              *)
(*                                                                         *)
(* A Python str is a sequence of one-character strings, so that iterating  *)
(* a str, splitting it and stripping it are computed as Python computes    *)
(* them.  None is the value None below.  One action is one request,        *)
(* handled from its arrival to its response; `last` records the request    *)
(* and the response it was given.                                          *)
(*                                                                         *)
(* Spec is the service under every request.  SpecVideos is the generation  *)
(* of questions for two videos over the Chroma collection of ./chroma_db.  *)
(* SpecLoop is the event loop that runs the handlers: requests arrive, the *)
(* loop begins a handler, and the handler's external calls return.         *)
(***************************************************************************)
EXTENDS Integers, Sequences, FiniteSets, TLC

VARIABLES
    store,      \* the rows of table interaction, in rowid order
    clock,      \* what datetime.now() returns at the next insert
    last,       \* the last request and its response
    chroma,     \* the documents of the Chroma collection of ./chroma_db
    running,    \* the request whose handler the event loop is in, or Idle
    waiting     \* the requests received whose handler has not begun

vars == <<store, clock, last, chroma, running, waiting>>

\* ------------------------------------------------------------------ bounds

\* POST /generate-questions is requested while the table holds fewer rows
MaxRows == 2

\* ----------------------------------------------------------------- strings

None == <<"<None>">>

Whitespace == {" ", "\n", "\t", "\r"}

\* sub in s
Contains(s, sub) ==
    \E i \in 1..(Len(s) - Len(sub) + 1) : SubSeq(s, i, i + Len(sub) - 1) = sub

\* the index of the first occurrence of sep in s, 0 when there is none
Find(s, sep) ==
    LET hits == {i \in 1..(Len(s) - Len(sep) + 1) :
                    SubSeq(s, i, i + Len(sep) - 1) = sep}
    IN  IF hits = {} THEN 0 ELSE CHOOSE i \in hits : \A j \in hits : i <= j

\* s.split(sep)
RECURSIVE Split(_, _)
Split(s, sep) ==
    LET i == Find(s, sep)
    IN  IF i = 0 THEN <<s>>
        ELSE <<SubSeq(s, 1, i - 1)>> \o Split(SubSeq(s, i + Len(sep), Len(s)), sep)

\* s.strip()
RECURSIVE LStrip(_)
LStrip(s) ==
    IF s # <<>> /\ Head(s) \in Whitespace THEN LStrip(Tail(s)) ELSE s

RECURSIVE RStrip(_)
RStrip(s) ==
    IF s # <<>> /\ s[Len(s)] \in Whitespace
    THEN RStrip(SubSeq(s, 1, Len(s) - 1)) ELSE s

Strip(s) == RStrip(LStrip(s))

\* for x in s, s a str: its characters, each a str of length one
Characters(s) == [i \in 1..Len(s) |-> <<s[i]>>]

Min(a, b) == IF a <= b THEN a ELSE b
Max(a, b) == IF a >= b THEN a ELSE b

\* ---------------------------------------------------------------- literals

ErrorPrefix == <<"E","r","r","o","r",":"," ">>
TranscriptErrorPrefix == <<"E","r","r","o","r"," ","e","x","t","r","a","c","t","i","n","g"," ","t","r","a","n","s","c","r","i","p","t",":"," ">>
QuestionsErrorPrefix == <<"E","r","r","o","r"," ","g","e","n","e","r","a","t","i","n","g"," ","q","u","e","s","t","i","o","n","s",":"," ">>
InvalidUrlDetail == <<"I","n","v","a","l","i","d"," ","Y","o","u","T","u","b","e"," ","U","R","L">>
InteractionNotFound == <<"I","n","t","e","r","a","c","t","i","o","n"," ","n","o","t"," ","f","o","u","n","d">>
QuestionNotFound == <<"Q","u","e","s","t","i","o","n"," ","n","o","t"," ","f","o","u","n","d">>
InvalidRequest == <<"I","n","v","a","l","i","d"," ","r","e","q","u","e","s","t">>
MissingQuestionId == <<"M","i","s","s","i","n","g"," ","q","u","e","s","t","i","o","n"," ","i","d">>
InternalServerError == <<"I","n","t","e","r","n","a","l"," ","S","e","r","v","e","r"," ","E","r","r","o","r">>
ValidationError == <<"v","a","l","i","d","a","t","i","o","n">>
YoutubeCom == <<"y","o","u","t","u","b","e",".","c","o","m">>
YoutuBe == <<"y","o","u","t","u",".","b","e">>

\* ------------------------------------------------------------------ inputs

UrlWatch == <<"h","t","t","p","s",":","/","/","y","o","u","t","u","b","e",".","c","o","m","/","w","a","t","c","h","?","v","=","a">>
UrlShort == <<"h","t","t","p","s",":","/","/","y","o","u","t","u",".","b","e","/","a">>
UrlNotALink == <<"n","o","t","-","a","-","y","o","u","t","u","b","e","-","l","i","n","k">>
UrlNear == <<"h","t","t","p","s",":","/","/","y","o","u","t","u","b","e",".","c","o","/","a">>
Urls == {UrlWatch, UrlShort, UrlNotALink, UrlNear, <<>>}

\* the URLs of two videos: that of UrlWatch and UrlShort, and another
UrlOtherVideo == <<"h","t","t","p","s",":","/","/","y","o","u","t","u",".","b","e","/","b">>
VideoUrls == {UrlWatch, UrlOtherVideo}

\* LLM answers to the question prompt: five items apart by blank lines, five
\* items apart by single newlines, two items, and whitespace only
R5 == <<"1","."," ","a","\n","\n","2","."," ","b","\n","\n","3","."," ","c","\n","\n","4","."," ","d","\n","\n","5","."," ","e">>
R5s == <<"1","."," ","a","\n","2","."," ","b","\n","3","."," ","c","\n","4","."," ","d","\n","5","."," ","e">>
R2 == <<"1","."," ","a","\n","\n","2","."," ","b">>
Rb == <<" ","\n">>
QuestionResponses == {R5, R5s, R2, Rb}

\* what an external call does: it returns val, or raises Exception(val)
Returned(v) == [ok |-> TRUE, val |-> v]
Raised(m) == [ok |-> FALSE, val |-> m]

ErrorMessages == {<<"x">>}
Failures == {Raised(m) : m \in ErrorMessages}

\* YouTubeTranscriptApi.get_transcript(video_id), joined: the transcript is
\* that of the video
TranscriptOutcomes(video_id) == {Returned(<<"t", " ">> \o video_id)} \cup Failures
\* Chroma.from_texts: the embedding of the chunks and their insertion
IndexOutcomes == {Returned(<<>>)} \cup Failures
\* qa_chain.invoke: the retrieval and the completion
QuestionLlmOutcomes == {Returned(r) : r \in QuestionResponses} \cup Failures
\* vector_store.persist()
PersistOutcomes == {Returned(<<>>)} \cup Failures
\* llm.invoke of the feedback prompt
FeedbackLlmOutcomes == {Returned(<<"f">>)} \cup Failures

\* the ids requests name: the first row's, and one of no row
Ids == {1, 99}

Offsets == {-1, 0, 1}
Limits == {-1, 0, 5, 10, 11}

\* ------------------------------------------------------- Interaction table

\* Interaction(question=q): answer and feedback default to None, created_at
\* to datetime.now(); the id is assigned by the insert
NewInteraction(q, id, now) ==
    [id |-> id, question |-> q, answer |-> None, feedback |-> None,
     created_at |-> now]

StoredIds(s) == {s[i].id : i \in 1..Len(s)}

\* NextId with the rowid of the last row given again
NextIdStale(s) == IF s = <<>> THEN 1 ELSE s[Len(s)].id

\* the rowid SQLite gives the next row of an INTEGER PRIMARY KEY table: one
\* more than the largest rowid, which the last row of the scan holds
NextId(s) == IF s = <<>> THEN 1 ELSE s[Len(s)].id + 1

\* session.add(Interaction(question=q)); session.commit()
Insert(s, q, now) == Append(s, NewInteraction(q, NextId(s), now))

\* what session.get returns for an id of no row (None, as a row)
NoRow == [none |-> TRUE]

\* SessionGet that takes the first row of the table whatever the id
SessionGetFirst(s, id) == IF s = <<>> THEN NoRow ELSE s[1]

\* session.get(Interaction, id): the row, or None
SessionGet(s, id) ==
    IF id \in StoredIds(s)
    THEN LET i == CHOOSE k \in 1..Len(s) : s[k].id = id IN s[i]
    ELSE NoRow

\* UpdateField without the row's id: every row of the table is updated
UpdateFieldAll(s, id, field, value) ==
    [i \in 1..Len(s) |-> [s[i] EXCEPT ![field] = value]]

\* interaction.sqlmodel_update({field: value}); session.add; session.commit
UpdateField(s, id, field, value) ==
    [i \in 1..Len(s) |->
        IF s[i].id = id THEN [s[i] EXCEPT ![field] = value] ELSE s[i]]

\* select(Interaction): the table scan, in rowid order
SelectAll(s) == s

\* SelectOffsetLimit with the limit applied before the offset
SelectLimitThenOffset(s, o, l) ==
    LET lim == IF l < 0 THEN s ELSE SubSeq(s, 1, Min(Len(s), l))
    IN  SubSeq(lim, Max(o, 0) + 1, Len(lim))

\* select(Interaction).offset(o).limit(l) as SQLite runs LIMIT l OFFSET o:
\* a negative OFFSET counts as 0, a negative LIMIT as no limit
SelectOffsetLimit(s, o, l) ==
    LET skip == Max(o, 0)
        upto == IF l < 0 THEN Len(s) ELSE Min(Len(s), skip + l)
    IN  SubSeq(SelectAll(s), skip + 1, upto)

\* ------------------------------------------------------------- responses

\* an external call as the request made it: to whom, and what it did
Called(to, outcome) == [to |-> to, ok |-> outcome.ok, val |-> outcome.val]

NoRequest ==
    [endpoint |-> "none", status |-> 0, detail |-> <<>>, body |-> <<>>,
     calls |-> <<>>, failed |-> FALSE, req |-> <<>>]

\* status: the HTTP status; detail: the detail of an HTTPException; body: the
\* Interactions (or the results) of a 200; calls: the external calls made, in
\* order; failed: whether one of them raised
Response(endpoint, req, status, detail, body, calls) ==
    [endpoint |-> endpoint, status |-> status, detail |-> detail, body |-> body,
     calls |-> calls, failed |-> \E i \in 1..Len(calls) : ~calls[i].ok,
     req |-> req]

\* ------------------------------------------------- QuestionFeedbackGenerator

\* what a Python call does: it returns val, or raises Exception(msg)
Return(v) == [raised |-> FALSE, val |-> v, msg |-> <<>>]
Raise(m) == [raised |-> TRUE, val |-> <<>>, msg |-> m]

\* the two shapes process_video returns: a list of str, or a str
ListOf(items) == [kind |-> "list", items |-> items, s |-> <<>>]
StrOf(s) == [kind |-> "str", items |-> <<>>, s |-> s]

\* for question in questions
Iterate(v) == IF v.kind = "str" THEN Characters(v.s) ELSE v.items

\* get_transcript: a provider failure is raised again with a prefix
GetTranscript(t) ==
    IF t.ok THEN Return(t.val) ELSE Raise(TranscriptErrorPrefix \o t.val)

\* extract_video_id
ExtractVideoId(youtube_url) ==
    IF Contains(youtube_url, YoutuBe)
    THEN LET parts == Split(youtube_url, <<"/">>) IN parts[Len(parts)]
    ELSE LET parts == Split(youtube_url, <<"v", "=">>)
         IN  Split(parts[Len(parts)], <<"&">>)[1]

\* RecursiveCharacterTextSplitter(chunk_size=1000, chunk_overlap=100)
ChunkSize == 1000
ChunkOverlap == 100

\* text_splitter.split_text(text): a text of at most ChunkSize characters is
\* one chunk, stripped, and none when nothing is left of it; a longer text
\* is cut here as one without separators is, in windows of ChunkSize that
\* share ChunkOverlap characters
SplitText(text) ==
    LET stride == ChunkSize - ChunkOverlap
        n == (Len(text) - ChunkOverlap + stride - 1) \div stride
    IN  IF Strip(text) = <<>> THEN <<>>
        ELSE IF Len(text) <= ChunkSize THEN <<Strip(text)>>
        ELSE [k \in 1..n |->
                SubSeq(text, (k - 1) * stride + 1,
                       Min(Len(text), (k - 1) * stride + ChunkSize))]

\* Chroma.from_texts(texts, persist_directory="./chroma_db"): the client
\* opens the collection the directory holds, with the documents docs in it,
\* and adds the texts to it
FromTexts(docs, chunks) == docs \cup {chunks[k] : k \in 1..Len(chunks)}

\* create_vector_store: a failure of Chroma.from_texts is not caught; the
\* vector store returned is told by the documents of its collection
CreateVectorStore(text, v, docs) ==
    IF v.ok THEN Return(FromTexts(docs, SplitText(text))) ELSE Raise(v.val)

\* as_retriever(search_kwargs={"k": 3})
TopK == 3

\* the contexts the retriever may give the chain: the TopK documents of the
\* collection nearest to the prompt, all of them when there are no more
Retrieved(docs) ==
    {ctx \in SUBSET docs : Cardinality(ctx) = Min(TopK, Cardinality(docs))}

\* [q.strip() for q in response["result"].split("\n\n")]
ParseQuestions(text) ==
    LET parts == Split(text, <<"\n", "\n">>)
    IN  [i \in 1..Len(parts) |-> Strip(parts[i])]

\* generate_questions of the generator
GeneratorGenerateQuestions(l) ==
    IF l.ok THEN Return(ListOf(ParseQuestions(l.val)))
    ELSE Raise(QuestionsErrorPrefix \o l.val)

\* process_video: except Exception returns "Error: ..." as the result; the
\* finally clause persists the vector store when one was created, and what
\* persist raises replaces the result.  calls: the external calls made
\* chroma: the documents ./chroma_db holds after the call: those of the
\* vector store once persist has returned.  ctx: the context retrieved
ProcessVideo(url, t, v, l, p, docs, ctx) ==
    LET tr == GetTranscript(t)
        vs == CreateVectorStore(tr.val, v, docs)
        qs == GeneratorGenerateQuestions(l)
        caught(e) == Return(StrOf(ErrorPrefix \o e.msg))
    IN  IF tr.raised
        THEN [out |-> caught(tr), calls |-> <<Called("transcript", t)>>,
              chroma |-> docs]
        ELSE IF vs.raised
        THEN [out |-> caught(vs),
              calls |-> <<Called("transcript", t), Called("index", v)>>,
              chroma |-> docs]
        ELSE [out |-> IF ~p.ok THEN Raise(p.val)
                      ELSE IF qs.raised THEN caught(qs) ELSE qs,
              calls |-> <<Called("transcript", t), Called("index", v),
                          Called("retrieve", Returned(ctx)),
                          Called("llm", l), Called("persist", p)>>,
              chroma |-> IF p.ok THEN vs.val ELSE docs]

\* generate_feedback of the generator: except Exception returns "Error: ..."
GeneratorGenerateFeedback(question, answer, f) ==
    IF f.ok THEN f.val ELSE ErrorPrefix \o f.val

\* ---------------------------------------------------------------- handlers
\* A handler maps the store, the clock and a request to the store and the
\* clock it leaves and the response it gives.

Handled(s, c, r) == [store |-> s, clock |-> c, resp |-> r]

\* the same of a handler that calls process_video, with the documents it
\* leaves in ./chroma_db
HandledIndexing(s, c, r, docs) ==
    [store |-> s, clock |-> c, resp |-> r, chroma |-> docs]

\* ValidateYoutubeUrl that looks for "youtube" alone
ValidateYoutubeUrlLoose(url) ==
    Contains(url, <<"y","o","u","t","u","b","e">>) \/ Contains(url, YoutuBe)

\* validate_youtube_url
ValidateYoutubeUrl(url) == Contains(url, YoutubeCom) \/ Contains(url, YoutuBe)

\* the loop of generate_questions: one insert and commit per question
RECURSIVE SaveQuestions(_, _, _)
SaveQuestions(s, questions, now) ==
    IF questions = <<>> THEN s
    ELSE SaveQuestions(Insert(s, Head(questions), now), Tail(questions), now + 1)

\* GenerateQuestionsBody that returns the rows of this request alone
OnlyCreatedBody(before, after) == SubSeq(after, Len(before) + 1, Len(after))

\* what generate_questions returns after the loop
GenerateQuestionsBody(before, after) == SelectAll(after)

\* POST /generate-questions
GenerateQuestionsHandler(s, c, url, t, v, l, p, docs, ctx) ==
    LET req == [url |-> url]
        pv  == ProcessVideo(url, t, v, l, p, docs, ctx)
        qs  == Iterate(pv.out.val)
        s2  == SaveQuestions(s, qs, c)
    IN  IF ~ValidateYoutubeUrl(url)
        THEN HandledIndexing(s, c, Response("generate-questions", req, 400,
                                            InvalidUrlDetail, <<>>, <<>>), docs)
        ELSE IF pv.out.raised
        THEN HandledIndexing(s, c, Response("generate-questions", req, 500,
                                            pv.out.msg, <<>>, pv.calls),
                             pv.chroma)
        ELSE HandledIndexing(s2, c + Len(qs),
                             Response("generate-questions", req, 200, <<>>,
                                      GenerateQuestionsBody(s, s2), pv.calls),
                             pv.chroma)

\* Query(le=10) of get_questions
LimitMax == 10

\* GET /get-questions?offset=o&limit=l: a limit above LimitMax fails the
\* validation of the query and is answered 422
GetQuestionsHandler(s, c, o, l) ==
    LET req == [offset |-> o, limit |-> l]
    IN  IF l > LimitMax
        THEN Handled(s, c, Response("get-questions", req, 422, ValidationError,
                                    <<>>, <<>>))
        ELSE Handled(s, c, Response("get-questions", req, 200, <<>>,
                                    SelectOffsetLimit(s, o, l), <<>>))

\* GET /get-question/{question_id} and GET /get-feedback/{interaction_id}
GetInteractionHandler(endpoint, s, c, id) ==
    LET req == [id |-> id]
        interaction == SessionGet(s, id)
    IN  IF interaction = NoRow
        THEN Handled(s, c, Response(endpoint, req, 404, InteractionNotFound,
                                    <<>>, <<>>))
        ELSE Handled(s, c, Response(endpoint, req, 200, <<>>, <<interaction>>,
                                    <<>>))

\* POST /generate-feedback {interaction_id, answer}
GenerateFeedbackHandler(s, c, id, answer, f) ==
    LET req == [id |-> id, answer |-> answer]
        interaction == SessionGet(s, id)
        feedback == GeneratorGenerateFeedback(interaction.question, answer, f)
        s2 == UpdateField(s, id, "feedback", feedback)
    IN  IF interaction = NoRow
        THEN Handled(s, c, Response("generate-feedback", req, 404,
                                    InteractionNotFound, <<>>, <<>>))
        ELSE Handled(s2, c, Response("generate-feedback", req, 200, <<>>,
                                     <<SessionGet(s2, id)>>, <<Called("llm", f)>>))

\* ------------------------------------------------------ tool-call envelope

\* the value of key 'id' of the arguments: absent, a number, or a str
IdAbsent == [t |-> "absent", n |-> 0, s |-> <<>>]
IdInt(n) == [t |-> "int", n |-> n, s |-> <<>>]
IdStr(s) == [t |-> "str", n |-> 0, s |-> s]

\* a JSON value: an object with its 'id' and 'answer_text', or an array
JObject(id, a) == [t |-> "object", id |-> id, answer_text |-> a]
JArray == [t |-> "array", id |-> IdAbsent, answer_text |-> None]

\* ToolCallFunction.arguments: a dict, or a str: a str is told by whether it
\* is valid JSON and, if it is, by the value it denotes
ArgDict(obj) == [isStr |-> FALSE, valid |-> TRUE, value |-> obj]
ArgStr(valid, value) == [isStr |-> TRUE, valid |-> valid, value |-> value]

\* json.loads
JsonLoads(a) ==
    IF a.valid THEN Return(a.value) ELSE Raise(<<"J","S","O","N">>)

\* bool(question_id)
Truthy(v) ==
    CASE v.t = "absent" -> FALSE
      [] v.t = "int" -> v.n # 0
      [] v.t = "str" -> v.s # <<>>

Digits == <<"0", "1", "2", "3", "4", "5", "6", "7", "8", "9">>
DigitValue(ch) == (CHOOSE k \in 1..Len(Digits) : Digits[k] = ch) - 1

RECURSIVE DecimalValue(_)
DecimalValue(s) ==
    IF s = <<>> THEN 0
    ELSE 10 * DecimalValue(SubSeq(s, 1, Len(s) - 1)) + DigitValue(s[Len(s)])

\* int(question_id): a str of decimal digits, spaces around it allowed
IntOf(v) ==
    LET d == Strip(v.s)
    IN  IF v.t = "int" THEN Return(v.n)
        ELSE IF d # <<>> /\ \A i \in 1..Len(d) : \E k \in 1..Len(Digits) : Digits[k] = d[i]
        THEN Return(DecimalValue(d))
        ELSE Raise(<<"V","a","l","u","e","E","r","r","o","r">>)

\* for tool_call in request.message.toolCalls: the first call of the name
FindToolCall(toolCalls, name) ==
    LET hits == {k \in 1..Len(toolCalls) : toolCalls[k].name = name}
    IN  IF hits = {} THEN 0 ELSE CHOOSE k \in hits : \A j \in hits : k <= j

Stop(status, detail) ==
    [status |-> status, detail |-> detail, toolCallId |-> "", args |-> JArray,
     question_id |-> 0]
Go(toolCallId, args, id) ==
    [status |-> 0, detail |-> <<>>, toolCallId |-> toolCallId, args |-> args,
     question_id |-> id]

\* The head of get_question (tool call), create_answer and provide_feedback,
\* to int(question_id): an exception no handler catches is answered 500
ResolveToolCall(toolCalls, name) ==
    LET k == FindToolCall(toolCalls, name)
        a == toolCalls[k].arguments
        loaded == IF a.isStr THEN JsonLoads(a) ELSE Return(a.value)
        args == loaded.val
        n == IntOf(args.id)
    IN  IF k = 0 THEN Stop(400, InvalidRequest)
        ELSE IF loaded.raised THEN Stop(500, InternalServerError)
        ELSE IF args.t # "object" THEN Stop(500, InternalServerError)
        ELSE IF ~Truthy(args.id) THEN Stop(400, MissingQuestionId)
        ELSE IF n.raised THEN Stop(500, InternalServerError)
        ELSE Go(toolCalls[k].id, args, n.val)

\* QuestionResponse(id=..., question_text=...).model_dump()
QuestionResponse(interaction) ==
    [id |-> interaction.id, question_text |-> interaction.question]

\* FeedbackResponse(...): answer_text and feedback_text are str, not None
FeedbackResponse(interaction) ==
    IF interaction.answer = None \/ interaction.feedback = None
    THEN Raise(ValidationError)
    ELSE Return([id |-> interaction.id, question_text |-> interaction.question,
                 answer_text |-> interaction.answer,
                 feedback_text |-> interaction.feedback])

\* {'results': [{'toolCallId': ..., 'result': ...}]}
Results(toolCallId, result) == <<[toolCallId |-> toolCallId, result |-> result]>>

\* print(f"... {interaction.question}") of get_question (tool call)
PrintQuestion(interaction) ==
    IF interaction = NoRow THEN Raise(<<"A","t","t","r">>) ELSE Return(<<>>)

\* POST /get-questions-vapi
GetQuestionsVapiHandler(s, c, toolCalls) ==
    LET req == [toolCalls |-> toolCalls]
        k == FindToolCall(toolCalls, "getAllQuestions")
        rows == SelectAll(s)
    IN  IF k = 0
        THEN Handled(s, c, Response("get-questions-vapi", req, 400,
                                    InvalidRequest, <<>>, <<>>))
        ELSE Handled(s, c, Response("get-questions-vapi", req, 200, <<>>,
                 Results(toolCalls[k].id,
                         [i \in 1..Len(rows) |-> QuestionResponse(rows[i])]),
                 <<>>))

\* POST /get-question-vapi: the row is printed before it is tested
GetQuestionVapiHandler(s, c, toolCalls) ==
    LET req == [toolCalls |-> toolCalls]
        r == ResolveToolCall(toolCalls, "getQuestion")
        interaction == SessionGet(s, r.question_id)
    IN  IF r.status # 0
        THEN Handled(s, c, Response("get-question-vapi", req, r.status,
                                    r.detail, <<>>, <<>>))
        ELSE IF PrintQuestion(interaction).raised
        THEN Handled(s, c, Response("get-question-vapi", req, 500,
                                    InternalServerError, <<>>, <<>>))
        ELSE IF interaction = NoRow
        THEN Handled(s, c, Response("get-question-vapi", req, 404,
                                    QuestionNotFound, <<>>, <<>>))
        ELSE Handled(s, c, Response("get-question-vapi", req, 200, <<>>,
                 Results(r.toolCallId, QuestionResponse(interaction)),
                 <<>>))

\* POST /create-answer
CreateAnswerHandler(s, c, toolCalls) ==
    LET req == [toolCalls |-> toolCalls]
        r == ResolveToolCall(toolCalls, "createAnswer")
        interaction == SessionGet(s, r.question_id)
        answer_text == r.args.answer_text
        s2 == UpdateField(s, r.question_id, "answer", answer_text)
    IN  IF r.status # 0
        THEN Handled(s, c, Response("create-answer", req, r.status, r.detail,
                                    <<>>, <<>>))
        ELSE IF interaction = NoRow
        THEN Handled(s, c, Response("create-answer", req, 404,
                                    QuestionNotFound, <<>>, <<>>))
        ELSE Handled(s2, c, Response("create-answer", req, 200, <<>>,
                 Results(r.toolCallId, "success"), <<>>))

\* POST /provide-feedback: the feedback is committed before the response is
\* built, and FeedbackResponse raises for an Interaction without an answer
ProvideFeedbackHandler(s, c, toolCalls, f) ==
    LET req == [toolCalls |-> toolCalls]
        r == ResolveToolCall(toolCalls, "provideFeedback")
        interaction == SessionGet(s, r.question_id)
        feedback == GeneratorGenerateFeedback(interaction.question,
                                              interaction.answer, f)
        s2 == UpdateField(s, r.question_id, "feedback", feedback)
        result == FeedbackResponse(SessionGet(s2, r.question_id))
    IN  IF r.status # 0
        THEN Handled(s, c, Response("provide-feedback", req, r.status, r.detail,
                                    <<>>, <<>>))
        ELSE IF interaction = NoRow
        THEN Handled(s, c, Response("provide-feedback", req, 404,
                                    QuestionNotFound, <<>>, <<>>))
        ELSE IF result.raised
        THEN Handled(s2, c, Response("provide-feedback", req, 500,
                                     InternalServerError, <<>>, <<Called("llm", f)>>))
        ELSE Handled(s2, c, Response("provide-feedback", req, 200, <<>>,
                 Results(r.toolCallId, result.val), <<Called("llm", f)>>))

\* ------------------------------------------------------- request inputs

Answers == {<<"a">>}
AnswerTexts == {None, <<"b">>}

IdVals ==
    {IdAbsent, IdInt(0), IdInt(1), IdInt(99), IdStr(<<"1">>), IdStr(<<"a">>)}

\* the arguments of a tool call: a dict with each id, a str that is no JSON,
\* a str that is a JSON array
Arguments ==
    {ArgDict(JObject(i, <<"a">>)) : i \in IdVals}
    \cup {ArgStr(FALSE, JArray), ArgStr(TRUE, JArray)}

OtherCall ==
    [id |-> "call_0", name |-> "otherTool",
     arguments |-> ArgDict(JObject(IdAbsent, None))]
Call(name, a) == [id |-> "call_1", name |-> name, arguments |-> a]

\* envelopes for the endpoint of tool `name`: no tool call of the name, one
\* with each of the arguments, one after a call of another tool, and one
\* whose arguments are a str of a JSON object, with each answer_text
ToolCallLists(name, texts) ==
    {<<OtherCall>>}
    \cup {<<Call(name, a)>> : a \in Arguments}
    \cup {<<OtherCall, Call(name, ArgStr(TRUE, JObject(IdInt(1), a)))>> :
            a \in texts}

\* a request as the server receives it
Request(endpoint, id, answer, url) ==
    [endpoint |-> endpoint, id |-> id, answer |-> answer, url |-> url]

\* the event loop is in no handler
Idle == Request("none", 0, <<>>, <<>>)

Init ==
    /\ store = <<>>
    /\ clock = 1
    /\ last = NoRequest
    /\ chroma = {}
    /\ running = Idle
    /\ waiting = {}

\* an external call that is not reached has no outcome to choose
After(reached, outcomes) == IF reached THEN outcomes ELSE {Returned(<<>>)}

\* One action per endpoint, the whole handler: the event loop begins a handler
\* when it is in no other (running = Idle) and runs it to its response.
GenerateQuestions ==
    /\ running = Idle
    /\ Len(store) < MaxRows
    /\ \E url \in Urls :
       \E t \in After(ValidateYoutubeUrl(url), TranscriptOutcomes(ExtractVideoId(url))) :
       \E v \in After(ValidateYoutubeUrl(url) /\ t.ok, IndexOutcomes) :
       \E ctx \in After(ValidateYoutubeUrl(url) /\ t.ok /\ v.ok,
                        Retrieved(CreateVectorStore(GetTranscript(t).val, v, chroma).val)) :
       \E l \in After(ValidateYoutubeUrl(url) /\ t.ok /\ v.ok, QuestionLlmOutcomes) :
       \E p \in After(ValidateYoutubeUrl(url) /\ t.ok /\ v.ok, PersistOutcomes) :
        LET h == GenerateQuestionsHandler(store, clock, url, t, v, l, p,
                                          chroma, ctx)
        IN  /\ store' = h.store
            /\ clock' = h.clock
            /\ last' = h.resp
            /\ chroma' = h.chroma
            /\ UNCHANGED <<running, waiting>>

GetQuestions ==
    /\ running = Idle
    /\ \E o \in Offsets, l \in Limits :
        LET h == GetQuestionsHandler(store, clock, o, l)
        IN  /\ store' = h.store
            /\ clock' = h.clock
            /\ last' = h.resp
            /\ chroma' = chroma
            /\ UNCHANGED <<running, waiting>>

GetQuestion ==
    /\ running = Idle
    /\ \E id \in Ids :
        LET h == GetInteractionHandler("get-question", store, clock, id)
        IN  /\ store' = h.store
            /\ clock' = h.clock
            /\ last' = h.resp
            /\ chroma' = chroma
            /\ UNCHANGED <<running, waiting>>

GenerateFeedback ==
    /\ running = Idle
    /\ \E id \in Ids, a \in Answers, f \in FeedbackLlmOutcomes :
        LET h == GenerateFeedbackHandler(store, clock, id, a, f)
        IN  /\ store' = h.store
            /\ clock' = h.clock
            /\ last' = h.resp
            /\ chroma' = chroma
            /\ UNCHANGED <<running, waiting>>

GetFeedback ==
    /\ running = Idle
    /\ \E id \in Ids :
        LET h == GetInteractionHandler("get-feedback", store, clock, id)
        IN  /\ store' = h.store
            /\ clock' = h.clock
            /\ last' = h.resp
            /\ chroma' = chroma
            /\ UNCHANGED <<running, waiting>>

HealthCheck ==
    /\ running = Idle
    /\ LET h == Handled(store, clock,
                        Response("health", <<>>, 200, <<>>, <<>>, <<>>))
       IN  /\ store' = h.store
           /\ clock' = h.clock
           /\ last' = h.resp
           /\ chroma' = chroma
           /\ UNCHANGED <<running, waiting>>

GetQuestionsVapi ==
    /\ running = Idle
    /\ \E tc \in {<<>>, <<OtherCall>>,
                  <<OtherCall, Call("getAllQuestions", ArgDict(JObject(IdAbsent, None)))>>} :
        LET h == GetQuestionsVapiHandler(store, clock, tc)
        IN  /\ store' = h.store
            /\ clock' = h.clock
            /\ last' = h.resp
            /\ chroma' = chroma
            /\ UNCHANGED <<running, waiting>>

GetQuestionVapi ==
    /\ running = Idle
    /\ \E tc \in ToolCallLists("getQuestion", {None}) :
        LET h == GetQuestionVapiHandler(store, clock, tc)
        IN  /\ store' = h.store
            /\ clock' = h.clock
            /\ last' = h.resp
            /\ chroma' = chroma
            /\ UNCHANGED <<running, waiting>>

CreateAnswer ==
    /\ running = Idle
    /\ \E tc \in ToolCallLists("createAnswer", AnswerTexts) :
        LET h == CreateAnswerHandler(store, clock, tc)
        IN  /\ store' = h.store
            /\ clock' = h.clock
            /\ last' = h.resp
            /\ chroma' = chroma
            /\ UNCHANGED <<running, waiting>>

ProvideFeedback ==
    /\ running = Idle
    /\ \E tc \in ToolCallLists("provideFeedback", {None}),
          f \in FeedbackLlmOutcomes :
        LET h == ProvideFeedbackHandler(store, clock, tc, f)
        IN  /\ store' = h.store
            /\ clock' = h.clock
            /\ last' = h.resp
            /\ chroma' = chroma
            /\ UNCHANGED <<running, waiting>>

Next ==
    \/ GenerateQuestions
    \/ GetQuestions
    \/ GetQuestion
    \/ GenerateFeedback
    \/ GetFeedback
    \/ HealthCheck
    \/ GetQuestionsVapi
    \/ GetQuestionVapi
    \/ CreateAnswer
    \/ ProvideFeedback

Spec == Init /\ [][Next]_vars

\* POST /generate-questions for the videos of VideoUrls
GenerateQuestionsOfVideos ==
    /\ running = Idle
    /\ Len(store) < MaxRows
    /\ \E url \in VideoUrls :
       \E t \in After(ValidateYoutubeUrl(url), TranscriptOutcomes(ExtractVideoId(url))) :
       \E v \in After(ValidateYoutubeUrl(url) /\ t.ok, IndexOutcomes) :
       \E ctx \in After(ValidateYoutubeUrl(url) /\ t.ok /\ v.ok,
                        Retrieved(CreateVectorStore(GetTranscript(t).val, v, chroma).val)) :
       \E l \in After(ValidateYoutubeUrl(url) /\ t.ok /\ v.ok, QuestionLlmOutcomes) :
       \E p \in After(ValidateYoutubeUrl(url) /\ t.ok /\ v.ok, PersistOutcomes) :
        LET h == GenerateQuestionsHandler(store, clock, url, t, v, l, p,
                                          chroma, ctx)
        IN  /\ store' = h.store
            /\ clock' = h.clock
            /\ last' = h.resp
            /\ chroma' = h.chroma
            /\ UNCHANGED <<running, waiting>>

\* the requests that index a video, and those that read the table
NextVideos ==
    \/ GenerateQuestionsOfVideos
    \/ GetQuestions
    \/ HealthCheck

SpecVideos == Init /\ [][NextVideos]_vars

\* ------------------------------------------------------- the event loop
\* uvicorn runs the app on one event loop.  Every endpoint is an `async def`
\* that calls the generator and the session directly, with no await: once
\* the loop has begun a handler it runs nothing else until the handler
\* returns, the time its external calls take included.

LoopRequests ==
    {Request("health", 0, <<>>, <<>>),
     Request("get-question", 1, <<>>, <<>>),
     Request("generate-feedback", 1, <<"a">>, <<>>),
     Request("generate-questions", 0, <<>>, UrlWatch),
     Request("generate-questions", 0, <<>>, UrlNotALink)}

\* the handler of request r makes an external call on table s
NeedsCall(r, s) ==
    CASE r.endpoint = "generate-questions" -> ValidateYoutubeUrl(r.url)
      [] r.endpoint = "generate-feedback" -> r.id \in StoredIds(s)
      [] OTHER -> FALSE

\* the handler of request r, with the outcomes of its external calls
Handle(r, s, c, docs, t, v, ctx, l, p, f) ==
    CASE r.endpoint = "generate-questions" ->
            GenerateQuestionsHandler(s, c, r.url, t, v, l, p, docs, ctx)
      [] r.endpoint = "generate-feedback" ->
            HandledIndexing(GenerateFeedbackHandler(s, c, r.id, r.answer, f).store, c,
                            GenerateFeedbackHandler(s, c, r.id, r.answer, f).resp,
                            docs)
      [] r.endpoint = "get-question" ->
            HandledIndexing(s, c, GetInteractionHandler("get-question", s, c, r.id).resp,
                            docs)
      [] r.endpoint = "health" ->
            HandledIndexing(s, c, Response("health", <<>>, 200, <<>>, <<>>, <<>>),
                            docs)

\* a client sends a request: the server socket takes it
Arrive ==
    \E r \in LoopRequests \ waiting :
        /\ r.endpoint = "generate-questions" => Len(store) < MaxRows
        /\ waiting' = waiting \cup {r}
        /\ UNCHANGED <<store, clock, last, chroma, running>>

\* the event loop, in no handler, begins that of a request received: a
\* handler that makes no external call returns at once; one that makes one
\* stays in it, and the loop with it
StartRequest ==
    \E r \in waiting :
        /\ running = Idle
        /\ waiting' = waiting \ {r}
        /\ IF NeedsCall(r, store)
           THEN /\ running' = r
                /\ UNCHANGED <<store, clock, last, chroma>>
           ELSE LET none == Returned(<<>>)
                    h == Handle(r, store, clock, chroma, none, none, none, none,
                                none, none)
                IN  /\ running' = Idle
                    /\ store' = h.store
                    /\ clock' = h.clock
                    /\ last' = h.resp
                    /\ chroma' = h.chroma

\* the external calls of the handler the loop is in return or raise, and the
\* handler runs to its response
CallsReturn ==
    /\ running # Idle
    /\ \E t \in After(running.endpoint = "generate-questions",
                      TranscriptOutcomes(ExtractVideoId(running.url))) :
       \E v \in After(running.endpoint = "generate-questions" /\ t.ok, IndexOutcomes) :
       \E ctx \in After(running.endpoint = "generate-questions" /\ t.ok /\ v.ok,
                        Retrieved(CreateVectorStore(GetTranscript(t).val, v, chroma).val)) :
       \E l \in After(running.endpoint = "generate-questions" /\ t.ok /\ v.ok,
                      QuestionLlmOutcomes) :
       \E p \in After(running.endpoint = "generate-questions" /\ t.ok /\ v.ok,
                      PersistOutcomes) :
       \E f \in After(running.endpoint = "generate-feedback", FeedbackLlmOutcomes) :
        LET h == Handle(running, store, clock, chroma, t, v, ctx, l, p, f)
        IN  /\ running' = Idle
            /\ store' = h.store
            /\ clock' = h.clock
            /\ last' = h.resp
            /\ chroma' = h.chroma
            /\ UNCHANGED waiting

NextLoop ==
    \/ Arrive
    \/ StartRequest
    \/ CallsReturn

SpecLoop == Init /\ [][NextLoop]_vars

\* ------------------------------------------------------------------ claims

\* s begins with prefix
HasPrefix(s, prefix) ==
    Len(s) >= Len(prefix) /\ SubSeq(s, 1, Len(prefix)) = prefix

\* the URL passes the validation the interface states
IsYoutubeUrl(url) == Contains(url, YoutubeCom) \/ Contains(url, YoutuBe)

\* the row of id in table s (id is stored)
RowOf(s, id) == s[CHOOSE k \in 1..Len(s) : s[k].id = id]

\* C1: a POST /generate-questions whose URL passes validation and in which an
\* external call (transcript, embedding and index, LLM) failed is answered
\* 500 with the failure message; it is never answered 200.
C1_CollaboratorFailureIs500 ==
    (/\ last.endpoint = "generate-questions"
     /\ IsYoutubeUrl(last.req.url)
     /\ last.failed)
        => (last.status = 500 /\ last.detail # <<>>)

\* C2: a POST /generate-feedback on a stored Interaction whose LLM completion
\* fails is answered 500 and leaves the Interaction's feedback as it was; an
\* error message is never stored as the feedback.
C2_Step ==
    (/\ last'.endpoint = "generate-feedback"
     /\ last'.req.id \in StoredIds(store)
     /\ last'.failed)
        => /\ last'.status = 500
           /\ RowOf(store', last'.req.id).feedback
                = RowOf(store, last'.req.id).feedback
           /\ ~HasPrefix(RowOf(store', last'.req.id).feedback, ErrorPrefix)

C2_FailedFeedbackIs500 == [][C2_Step]_vars

\* C3: GET /get-questions is answered 200 with at most 10 Interactions for
\* every table, offset and limit; a limit above 10 is capped, not rejected.
C3_AtMostTenAlways200 ==
    last.endpoint = "get-questions"
        => (last.status = 200 /\ Len(last.body) <= 10)

\* the number of rows of s whose id is below that of row r
Rank(s, r) == Cardinality({j \in 1..Len(s) : s[j].id < r.id})

C5_Step ==
    (/\ last'.endpoint \in {"get-question", "get-feedback", "generate-feedback"}
     /\ last'.req.id \notin StoredIds(store))
        => /\ last'.status = 404
           /\ \A i \in 1..Len(last'.calls) : last'.calls[i].to # "llm"
           /\ store' = store

C5_UnknownIdIs404 == [][C5_Step]_vars

\* POST /generate-feedback for an unknown id, on a table that holds rows
C5_Witness ==
    /\ last.endpoint = "generate-feedback"
    /\ last.req.id \notin StoredIds(store)
    /\ store # <<>>
    /\ last.status = 404

\* the tool each tool-call endpoint serves
ToolEndpoints == {"get-question-vapi", "create-answer", "provide-feedback"}
ToolName(endpoint) ==
    CASE endpoint = "get-question-vapi" -> "getQuestion"
      [] endpoint = "create-answer" -> "createAnswer"
      [] endpoint = "provide-feedback" -> "provideFeedback"

\* the envelope holds a tool call of the name
HasCall(toolCalls, name) ==
    \E k \in 1..Len(toolCalls) : toolCalls[k].name = name

\* the arguments of the first tool call of the name
FirstCallArguments(toolCalls, name) ==
    LET k == CHOOSE i \in 1..Len(toolCalls) :
                /\ toolCalls[i].name = name
                /\ \A j \in 1..(i - 1) : toolCalls[j].name # name
    IN  toolCalls[k].arguments

\* arguments that are an object whose id is a number of no row of s
NamesNoRow(s, a) ==
    /\ a.valid
    /\ a.value.t = "object"
    /\ a.value.id.t = "int"
    /\ a.value.id.n \notin StoredIds(s)

\* C6: on POST /get-question-vapi, /create-answer and /provide-feedback, a
\* well-formed envelope that names the endpoint's tool with an id of no
\* stored Interaction is answered 404 and leaves the table as it was.
C6_Step ==
    (/\ last'.endpoint \in ToolEndpoints
     /\ HasCall(last'.req.toolCalls, ToolName(last'.endpoint))
     /\ NamesNoRow(store, FirstCallArguments(last'.req.toolCalls,
                                             ToolName(last'.endpoint))))
        => (last'.status = 404 /\ store' = store)

C6_ToolUnknownIdIs404 == [][C6_Step]_vars

\* arguments that cannot be parsed (a str that is no JSON, or JSON that is
\* no object), or an object without the id
Unparseable(a) ==
    \/ a.isStr /\ ~a.valid
    \/ a.isStr /\ a.valid /\ a.value.t # "object"
    \/ a.valid /\ a.value.t = "object" /\ a.value.id.t = "absent"

\* C7: on the three tool-call endpoints, a request whose matching tool call
\* has arguments that cannot be parsed, or that lack the id, is answered 400
\* and leaves the table as it was.
C7_Step ==
    (/\ last'.endpoint \in ToolEndpoints
     /\ HasCall(last'.req.toolCalls, ToolName(last'.endpoint))
     /\ Unparseable(FirstCallArguments(last'.req.toolCalls,
                                       ToolName(last'.endpoint))))
        => (last'.status = 400 /\ store' = store)

C7_ToolBadArgumentsIs400 == [][C7_Step]_vars

\* the rows of table `after` that table `before` did not hold
Created(before, after) == SubSeq(after, Len(before) + 1, Len(after))

\* C8 as stated: a POST /generate-questions answered 200, no external call
\* of which failed, returns exactly the Interactions that request created,
\* in creation order, and none that existed before it.
C8_Original_Step ==
    (/\ last'.endpoint = "generate-questions"
     /\ last'.status = 200
     /\ ~last'.failed)
        => last'.body = Created(store, store')

C8_Amended_Step ==
    (last'.endpoint = "generate-questions" /\ last'.status = 200)
        => /\ last'.body = store'
           /\ SubSeq(store', 1, Len(store)) = store
           /\ Len(store') > Len(store)
           /\ \A i \in 1..(Len(store') - 1) : store'[i].id < store'[i + 1].id
           /\ (\E i \in 1..Len(last'.calls) :
                    /\ last'.calls[i].to = "llm"
                    /\ last'.calls[i].ok
                    /\ last'.calls[i].val = R5)
                => Len(store') = Len(store) + 5

C9_Step ==
    (last'.endpoint = "generate-questions" /\ ~IsYoutubeUrl(last'.req.url))
        => /\ last'.status = 400
           /\ last'.calls = <<>>
           /\ store' = store

C9_InvalidUrlIs400 == [][C9_Step]_vars

\* "not-a-youtube-link" is answered 400
C9_Witness ==
    /\ last.endpoint = "generate-questions"
    /\ last.req.url = UrlNotALink
    /\ store # <<>>
    /\ last.status = 400
    /\ last.calls = <<>>

\* C10: every Interaction of the table stays in it with its id, its question
\* and its created_at, whatever the request and its outcome, and no two
\* Interactions of the table share an id.
\* row r of a table is Interaction x, with its id, question and created_at
SameInteraction(r, x) ==
    /\ r.id = x.id
    /\ r.question = x.question
    /\ r.created_at = x.created_at

C10_Step ==
    /\ \A i \in 1..Len(store) :
            \/ i <= Len(store') /\ SameInteraction(store'[i], store[i])
            \/ \E j \in 1..Len(store') : SameInteraction(store'[j], store[i])
    /\ Cardinality(StoredIds(store')) = Len(store')

C10_InteractionsKept == [][C10_Step]_vars

\* an Interaction whose answer and feedback were set, in a table of several,
\* after a request that failed
C10_Witness ==
    /\ Len(store) > 1
    /\ \E i \in 1..Len(store) :
            store[i].answer # None /\ store[i].feedback # None
    /\ last.status \in {400, 404, 500}

\* C11: once the answer of an Interaction is a text, no request changes it or
\* sets it back to None: not a second POST /create-answer for the same id,
\* with another answer_text or with none.
C11_Step ==
    \A i \in 1..Len(store) :
        store[i].answer # None
            => (i <= Len(store') /\ store'[i].answer = store[i].answer)

C11_AnswerSetOnce == [][C11_Step]_vars

\* the id a request answered 200 names: that of the body of
\* /generate-feedback, or that of the arguments of the tool call
TargetId(r) ==
    IF r.endpoint = "generate-feedback" THEN r.req.id
    ELSE LET a == FirstCallArguments(r.req.toolCalls, ToolName(r.endpoint))
         IN  IF a.value.id.t = "int" THEN a.value.id.n
             ELSE DecimalValue(a.value.id.s)

\* row x is row r but for its field
SameBut(r, x, field) == x = [r EXCEPT ![field] = x[field]]

\* C12: a POST /create-answer answered 200 for id i sets the answer of
\* Interaction i to the answer_text submitted and changes nothing else of the
\* table; a POST /generate-feedback or /provide-feedback answered 200 for id
\* i sets the feedback of Interaction i, to the completion when the LLM call
\* returned, and changes nothing else: not the answer of Interaction i, which
\* /generate-feedback does not set to the answer of the request, and no
\* other Interaction.
C12_Step ==
    (/\ last'.endpoint \in {"create-answer", "generate-feedback", "provide-feedback"}
     /\ last'.status = 200)
        => LET id == TargetId(last')
               field == IF last'.endpoint = "create-answer"
                        THEN "answer" ELSE "feedback"
           IN  /\ id \in StoredIds(store)
               /\ Len(store') = Len(store)
               /\ \A k \in 1..Len(store) :
                    IF store[k].id = id
                    THEN SameBut(store[k], store'[k], field)
                    ELSE store'[k] = store[k]
               /\ last'.endpoint = "create-answer"
                    => LET text == FirstCallArguments(last'.req.toolCalls,
                                       "createAnswer").value.answer_text
                       IN  text # None => RowOf(store', id).answer = text
               /\ (last'.endpoint # "create-answer" /\ ~last'.failed)
                    => RowOf(store', id).feedback = last'.calls[1].val

C12_OwnFieldOfOwnRecord == [][C12_Step]_vars

\* an answer submitted for the first of several Interactions, whose feedback
\* was set before: the feedback stays, and the second Interaction has no answer
C12_Witness ==
    /\ last.endpoint = "create-answer"
    /\ last.status = 200
    /\ Len(store) > 1
    /\ store[1].answer = <<"b">>
    /\ store[1].feedback = <<"f">>
    /\ store[2].answer = None
    /\ store[2].feedback = None

\* the completion the LLM returned to the question prompt of request r
ReturnedCompletion(r, text) ==
    \E i \in 1..Len(r.calls) :
        r.calls[i].to = "llm" /\ r.calls[i].ok /\ r.calls[i].val = text

\* the five items of R5 and of R5s, in list order
Items5 ==
    << <<"1", ".", " ", "a">>, <<"2", ".", " ", "b">>, <<"3", ".", " ", "c">>,
       <<"4", ".", " ", "d">>, <<"5", ".", " ", "e">> >>

\* C13: a POST /generate-questions no external call of which failed, and
\* whose LLM completion is a numbered list of five items, apart by blank
\* lines or by single newlines, is answered 200 and creates five
\* Interactions: one per item, in list order, none with an empty question.
C13_Step ==
    (/\ last'.endpoint = "generate-questions"
     /\ ~last'.failed
     /\ ReturnedCompletion(last', R5) \/ ReturnedCompletion(last', R5s))
        => /\ last'.status = 200
           /\ Len(store') = Len(store) + 5
           /\ \A k \in 1..5 : store'[Len(store) + k].question = Items5[k]

C13_FiveItemsFiveQuestions == [][C13_Step]_vars

\* C14: a POST /generate-questions no external call of which failed, and
\* whose LLM completion is empty or whitespace, is answered 500 and creates
\* no Interaction; one answered 200 after no failure creates at least one
\* Interaction and none with an empty question.
C14_Step ==
    (last'.endpoint = "generate-questions" /\ ~last'.failed)
        => /\ (\E r \in QuestionResponses :
                    ReturnedCompletion(last', r) /\ Strip(r) = <<>>)
                => (last'.status = 500 /\ store' = store)
           /\ last'.status = 200
                => /\ Created(store, store') # <<>>
                   /\ \A k \in (Len(store) + 1)..Len(store') :
                        store'[k].question # <<>>

C14_NoQuestionIsParseError == [][C14_Step]_vars

\* C17: a POST /provide-feedback that names a stored Interaction by its
\* number, whether its answer is None or a text, is either answered 200,
\* with a feedback stored, or answered with an error status and leaves the
\* table as it was; no feedback is stored by a request answered with an
\* error.
C17_Step ==
    (/\ last'.endpoint = "provide-feedback"
     /\ HasCall(last'.req.toolCalls, "provideFeedback")
     /\ LET a == FirstCallArguments(last'.req.toolCalls, "provideFeedback")
        IN  /\ a.valid
            /\ a.value.t = "object"
            /\ a.value.id.t = "int"
            /\ a.value.id.n \in StoredIds(store))
        => \/ /\ last'.status = 200
              /\ RowOf(store', TargetId(last')).feedback # None
           \/ /\ last'.status # 200
              /\ store' = store

C17_FeedbackAllOrNothing == [][C17_Step]_vars

\* the questions the parsing of an LLM completion gives
WholeQuestions ==
    UNION {{ParseQuestions(r)[k] : k \in 1..Len(ParseQuestions(r))} :
             r \in QuestionResponses}

\* C18: the question of every Interaction of the table is one of the
\* questions the parsing of an LLM completion gave, whatever the requests
\* before and whichever external calls failed in them; none is a character
\* of an error message.
C18_QuestionsAreWhole ==
    \A i \in 1..Len(store) : store[i].question \in WholeQuestions

\* the chunks of the transcript request r fetched
OwnChunks(r) ==
    LET chunks == SplitText(r.calls[1].val)
    IN  {chunks[k] : k \in 1..Len(chunks)}

\* C15: the context retrieved for the LLM in a POST /generate-questions
\* holds chunks of the transcript of that request only: the index queried
\* holds no chunk that an earlier request, for another video, put in it.
C15_OnlyOwnChunksRetrieved ==
    last.endpoint = "generate-questions"
        => \A i \in 1..Len(last.calls) :
                last.calls[i].to = "retrieve" => last.calls[i].val \subseteq OwnChunks(last)

\* C16: while the handler of one request is in an external call, a request
\* received that needs no external call (GET /health, GET /get-question/1)
\* can be handled: the server can begin, and so finish, its handler.
C16_UnrelatedNotStalled ==
    (/\ running # Idle
     /\ \E r \in waiting : ~NeedsCall(r, store))
        => ENABLED StartRequest

====
